---- MODULE Spec2Model ----
(***************************************************************************)
(* Model of hpra_parser: the XML -> nested value normaliser                *)
(* (converter.etree_to_dict), the flattener (converter.flatten_dict,       *)
(* converter.flatten_data), the per-file conversion                        *)
(* (converter.convert_xml_to_json) and the batch loop (cli.run).           *)
(*                                                                         *)
(* Strings are sequences of one-character strings, so that stripping a     *)
(* namespace, trimming whitespace and building a dotted key are computed   *)
(* on characters, as the code computes them.                               *)
(*                                                                         *)
(* Python values are tagged records:                                       *)
(*   None            [t |-> "none"]                                        *)
(*   str             [t |-> "str",  s |-> <characters>]                    *)
(*   dict (ordered)  [t |-> "dict", items |-> << <<key, value>>, ... >>]   *)
(*   list            [t |-> "list", elems |-> << value, ... >>]            *)
(***************************************************************************)
EXTENDS Integers, Sequences, FiniteSets, TLC

VARIABLES
    pc,          \* position of the process of the specification at hand
    node,        \* ConvSpec: the parsed ElementTree root given to parse_xml
    data,        \* ConvSpec: the value parse_xml returned
    flat,        \* ConvSpec: the value flatten_data returned
    args,        \* Spec: the parsed command line (flatten, no_report, report_format)
    targets,     \* Spec: the list resolve_targets returned
    idx,         \* Spec: number of targets the for loop of run has consumed
    results,     \* Spec: metrics.results, the batch result log
    report,      \* Spec: what generate_quality_report did
    outputs,     \* Spec: the JSON files of the output directory, by input file name
    conversion_result, \* Spec: the value convert_xml_to_json last returned to run
    exit_code    \* Spec: <<the value run returned>>, <<>> before it returns

vars == <<pc, node, data, flat, args, targets, idx, results, report, outputs,
          conversion_result, exit_code>>

----------------------------------------------------------------------------
(* Bounds of the model *)

\* children of one element of the enumerated documents
MaxChildren == 2

\* files of one batch
MaxTargets == 2

----------------------------------------------------------------------------
(* Python values *)

None == [t |-> "none"]
Str(s) == [t |-> "str", s |-> s]
Dict(items) == [t |-> "dict", items |-> items]
List(elems) == [t |-> "list", elems |-> elems]

IsNone(v) == v.t = "none"
IsDict(v) == v.t = "dict"
IsList(v) == v.t = "list"

EmptyDict == Dict(<<>>)

\* key in d
DictHas(d, k) == \E i \in 1..Len(d.items) : d.items[i][1] = k

\* d.get(k)  (None when the key is missing)
DictGet(d, k) ==
    IF DictHas(d, k)
    THEN d.items[CHOOSE i \in 1..Len(d.items) : d.items[i][1] = k][2]
    ELSE None

\* d[k] = v : an existing key keeps its position, a new key is appended
DictSet(d, k, v) ==
    IF DictHas(d, k)
    THEN Dict([i \in 1..Len(d.items) |->
                  IF d.items[i][1] = k THEN <<k, v>> ELSE d.items[i]])
    ELSE Dict(Append(d.items, <<k, v>>))

RECURSIVE DictUpdateFrom(_, _, _)
DictUpdateFrom(d, e, i) ==
    IF i > Len(e.items) THEN d
    ELSE DictUpdateFrom(DictSet(d, e.items[i][1], e.items[i][2]), e, i + 1)

\* d.update(e)
DictUpdate(d, e) == DictUpdateFrom(d, e, 1)

DictKeys(d) == [i \in 1..Len(d.items) |-> d.items[i][1]]

----------------------------------------------------------------------------
(* Strings *)

Whitespace == {" ", "\n", "\t"}

RECURSIVE LStrip(_)
LStrip(s) == IF s # <<>> /\ Head(s) \in Whitespace THEN LStrip(Tail(s)) ELSE s

RECURSIVE RStrip(_)
RStrip(s) ==
    IF s # <<>> /\ s[Len(s)] \in Whitespace
    THEN RStrip(SubSeq(s, 1, Len(s) - 1)) ELSE s

\* str.strip()
Strip(s) == RStrip(LStrip(s))

\* position of the first "}" of s, 0 when there is none
FirstClose(s) ==
    IF \E i \in 1..Len(s) : s[i] = "}"
    THEN CHOOSE i \in 1..Len(s) :
            s[i] = "}" /\ \A j \in 1..(i - 1) : s[j] # "}"
    ELSE 0

\* strip_namespace: tags and attribute names ElementTree hands over are
\* either "local" or "{uri}local", so the split always has a second part
strip_namespace(tag) ==
    IF tag # <<>> /\ Head(tag) = "{"
    THEN SubSeq(tag, FirstClose(tag) + 1, Len(tag))
    ELSE tag

Digits == <<"0", "1", "2", "3", "4", "5", "6", "7", "8", "9">>

RECURSIVE IntToStr(_)
\* str(index) inside the f-strings, index >= 0
IntToStr(n) ==
    IF n < 10 THEN <<Digits[n + 1]>>
    ELSE IntToStr(n \div 10) \o <<Digits[(n % 10) + 1]>>

K_attributes == <<"a", "t", "t", "r", "i", "b", "u", "t", "e", "s">>
K_value == <<"v", "a", "l", "u", "e">>
K_Products == <<"P", "r", "o", "d", "u", "c", "t", "s">>
K_Product == <<"P", "r", "o", "d", "u", "c", "t">>
Sep == <<".">>

----------------------------------------------------------------------------
(* converter.etree_to_dict *)

\* An ElementTree element:
\*   [tag |-> chars, attrib |-> << <<name, value>>, ... >>, text |-> chars,
\*    children |-> << element, ... >>]
\* attrib is a dict of ElementTree: its names (with their "{uri}") are distinct.
\* text is "" where ElementTree has None: the code reads (node.text or "").
Element(tag, attrib, text, children) ==
    [tag |-> tag, attrib |-> attrib, text |-> text, children |-> children]

RECURSIVE AttribDictFrom_FirstWins(_, _, _)
\* AttribDictFrom that keeps the first of two attributes sharing a local name
AttribDictFrom_FirstWins(attrib, i, d) ==
    IF i > Len(attrib) THEN d
    ELSE AttribDictFrom_FirstWins(attrib, i + 1,
            IF DictHas(d, strip_namespace(attrib[i][1])) THEN d
            ELSE DictSet(d, strip_namespace(attrib[i][1]), Str(attrib[i][2])))

RECURSIVE AttribDictFrom(_, _, _)
AttribDictFrom(attrib, i, d) ==
    IF i > Len(attrib) THEN d
    ELSE AttribDictFrom(attrib, i + 1,
            DictSet(d, strip_namespace(attrib[i][1]), Str(attrib[i][2])))

\* {strip_namespace(key): value for key, value in node.attrib.items()}
AttribDict(attrib) == AttribDictFrom(attrib, 1, EmptyDict)

\* TextOrNone that returns the empty string where the code returns None
TextOrNone_EmptyString(text) == Str(text)

\* text or None
TextOrNone(text) == IF text # <<>> THEN Str(text) ELSE None

\* grouped_children.setdefault(key, []).append(value)
GroupAppend(grouped, key, value) ==
    IF DictHas(grouped, key)
    THEN DictSet(grouped, key, Append(DictGet(grouped, key), value))
    ELSE DictSet(grouped, key, <<value>>)

\* GroupValue that wraps a single surviving child in a list as well
GroupValue_AlwaysList(values) == List(values)

\* values[0] if len(values) == 1 else values
GroupValue(values) == IF Len(values) = 1 THEN values[1] ELSE List(values)

RECURSIVE StoreGroups(_, _, _)
\* for key, values in grouped_children.items(): result[key] = ...
StoreGroups(result, grouped, i) ==
    IF i > Len(grouped.items) THEN result
    ELSE StoreGroups(
            DictSet(result, grouped.items[i][1], GroupValue(grouped.items[i][2])),
            grouped, i + 1)

\* Collapse for a sole entry of any name
Collapse_AnySoleEntry(result, tag) ==
    IF /\ ~DictHas(result, K_attributes)
       /\ ~DictHas(result, K_value)
       /\ Len(result.items) = 1
    THEN result.items[1][2]
    ELSE result

\* the collapse of a map whose sole entry carries the node's own name
Collapse(result, tag) ==
    IF /\ ~DictHas(result, K_attributes)
       /\ ~DictHas(result, K_value)
       /\ Len(result.items) = 1
       /\ result.items[1][1] = tag
    THEN result.items[1][2]
    ELSE result

RECURSIVE etree_to_dict(_)
RECURSIVE GroupChildren(_, _, _)

\* for child in children: ... (the loop that fills grouped_children)
GroupChildren(children, i, grouped) ==
    IF i > Len(children) THEN grouped
    ELSE LET key == strip_namespace(children[i].tag)
             value == etree_to_dict(children[i])
         IN  IF IsNone(value)
             THEN GroupChildren(children, i + 1, grouped)
             ELSE GroupChildren(children, i + 1, GroupAppend(grouped, key, value))

\* result after lines 41-44: the node's own attributes
ResultWithAttributes(n) ==
    IF n.attrib # <<>>
    THEN DictSet(EmptyDict, K_attributes, AttribDict(n.attrib))
    ELSE EmptyDict

\* grouped_children after the loop of lines 48-53
GroupedChildren(n) == GroupChildren(n.children, 1, EmptyDict)

\* lines 46-56 applied to result: the children stored by name
StoreChildren(n, result) ==
    IF n.children # <<>>
    THEN StoreGroups(result, GroupedChildren(n), 1)
    ELSE result

\* lines 58-60 applied to result: the node's own text stored under "value"
StoreValue(n, result) ==
    IF Strip(n.text) # <<>> /\ result.items # <<>>
    THEN DictSet(result, K_value, Str(Strip(n.text)))
    ELSE result

\* result after line 56 and after line 60
ResultWithChildren(n) == StoreChildren(n, ResultWithAttributes(n))
ResultWithValue(n) == StoreValue(n, ResultWithChildren(n))

etree_to_dict(n) ==
    LET tag == strip_namespace(n.tag)
        text == Strip(n.text)
        with_children == StoreChildren(n, ResultWithAttributes(n))
        result == StoreValue(n, with_children)
    IN  IF n.children = <<>> /\ n.attrib = <<>> THEN TextOrNone(text)
        ELSE IF text # <<>> /\ with_children.items = <<>> THEN Str(text)
        ELSE IF result.items = <<>> THEN TextOrNone(text)
        ELSE Collapse(result, tag)

\* parse_xml, for a file that parses: {strip_namespace(root.tag): etree_to_dict(root)}
parse_xml(root) == Dict(<< <<strip_namespace(root.tag), etree_to_dict(root)>> >>)

----------------------------------------------------------------------------
(* converter.flatten_dict and converter.flatten_data *)

Join(parent_key, key) ==
    IF parent_key # <<>> THEN parent_key \o Sep \o key ELSE key

IsScalar(v) == ~IsDict(v) /\ ~IsList(v)

RECURSIVE AttrItems(_, _, _, _)
\* for attr_key, attr_val in val.items(): items[combined_key] = attr_val
AttrItems(items, attr_prefix, val, i) ==
    IF i > Len(val.items) THEN items
    ELSE AttrItems(
            DictSet(items, Join(attr_prefix, val.items[i][1]), val.items[i][2]),
            attr_prefix, val, i + 1)

\* IndexedKey counting from 1
IndexedKey_OneBased(parent_key, index) ==
    parent_key \o <<"[">> \o IntToStr(index + 1) \o <<"]">>

\* f"{parent_key}[{index}]"
IndexedKey(parent_key, index) == parent_key \o <<"[">> \o IntToStr(index) \o <<"]">>

RECURSIVE flatten_dict(_, _)
RECURSIVE FlattenEntries(_, _, _, _)
RECURSIVE FlattenElems(_, _, _, _)

\* the dict branch: for key, val in value.items()
FlattenEntries(items, value, parent_key, i) ==
    IF i > Len(value.items) THEN items
    ELSE LET key == value.items[i][1]
             val == value.items[i][2]
         IN  IF key = K_attributes /\ IsDict(val)
             THEN FlattenEntries(
                     AttrItems(items, Join(parent_key, K_attributes), val, 1),
                     value, parent_key, i + 1)
             ELSE FlattenEntries(
                     DictUpdate(items, flatten_dict(val, Join(parent_key, key))),
                     value, parent_key, i + 1)

\* the two enumerate loops of the list branch; Python indexes from 0
FlattenElems(items, value, parent_key, i) ==
    IF i > Len(value.elems) THEN items
    ELSE FlattenElems(
            DictUpdate(items,
                flatten_dict(value.elems[i], IndexedKey(parent_key, i - 1))),
            value, parent_key, i + 1)

flatten_dict(value, parent_key) ==
    IF IsDict(value) THEN FlattenEntries(EmptyDict, value, parent_key, 1)
    ELSE IF IsList(value)
    THEN IF parent_key = <<>> THEN FlattenElems(EmptyDict, value, <<>>, 1)
         ELSE IF \A i \in 1..Len(value.elems) : IsScalar(value.elems[i])
         THEN DictSet(EmptyDict, parent_key, value)
         ELSE FlattenElems(EmptyDict, value, parent_key, 1)
    ELSE IF parent_key # <<>> THEN DictSet(EmptyDict, parent_key, value)
         ELSE EmptyDict

\* products_raw of flatten_data, as a sequence of items
ProductsRaw(products_section) ==
    LET raw == DictGet(products_section, K_Product)
    IN  IF IsList(raw) THEN raw.elems
        ELSE IF ~IsNone(raw) THEN <<raw>> ELSE <<>>

\* Products.attributes.<attr_key>
BroadcastKey(attr_key) == K_Products \o Sep \o K_attributes \o Sep \o attr_key

RECURSIVE BroadcastAttrs(_, _, _)
\* for attr_key, attr_val in root_attrs.items(): flattened[...] = attr_val
BroadcastAttrs(flattened, root_attrs, i) ==
    IF i > Len(root_attrs.items) THEN flattened
    ELSE BroadcastAttrs(
            DictSet(flattened, BroadcastKey(root_attrs.items[i][1]),
                    root_attrs.items[i][2]),
            root_attrs, i + 1)

\* FlattenProduct without the copy of the container's attributes
FlattenProduct_NoBroadcast(product, root_attrs) == flatten_dict(product, <<>>)

\* the body of "for product in products_raw"
FlattenProduct(product, root_attrs) ==
    IF IsDict(root_attrs)
    THEN BroadcastAttrs(flatten_dict(product, <<>>), root_attrs, 1)
    ELSE flatten_dict(product, <<>>)

\* isinstance(products_section, dict) and "Product" in products_section
HasProducts(d) ==
    IsDict(DictGet(d, K_Products)) /\ DictHas(DictGet(d, K_Products), K_Product)

flatten_data(d) ==
    IF HasProducts(d)
    THEN LET products_section == DictGet(d, K_Products)
             products_raw == ProductsRaw(products_section)
             root_attrs == DictGet(products_section, K_attributes)
         IN  List([i \in 1..Len(products_raw) |->
                      FlattenProduct(products_raw[i], root_attrs)])
    ELSE flatten_dict(d, <<>>)

----------------------------------------------------------------------------
(* The documents of the model *)

SeqUpTo(S, n) == UNION {[1..k -> S] : k \in 0..n}

Leaf(tag, text) == Element(tag, <<>>, text, <<>>)

T_a == <<"a">>
T_b == <<"b">>
T_na == <<"{", "n", "}", "a">>
T_a_b == <<"a", ".", "b">>
T_Name == <<"N", "a", "m", "e">>
T_Info == <<"I", "n", "f", "o">>
A_id == <<"i", "d">>
A_nid == <<"{", "n", "}", "i", "d">>
A_v == <<"v">>

\* attribute sets of an element: none, one, two names sharing a local name,
\* two different names
AttribSets ==
    { <<>>,
      << <<A_id, <<"1">>>> >>,
      << <<A_id, <<"1">>>>, <<A_nid, <<"2">>>> >>,
      << <<A_id, <<"1">>>>, <<A_v, <<" ", "2">>>> >> }

\* texts of an element: none, whitespace only, text with whitespace around
Texts == { <<>>, <<" ", "\n">>, <<"t">>, <<" ", "t", "\t">> }

\* elements without children: every tag, text and attribute set
LeafDocs ==
    { Element(tag, attrib, text, <<>>) :
        tag \in {T_a, T_na, K_Products}, attrib \in AttribSets, text \in Texts }

\* the children of the wide documents
Kids ==
    { Leaf(T_a, <<"x">>), Leaf(T_a, <<" ", "y", " ">>), Leaf(T_a, <<>>),
      Leaf(T_na, <<"z">>), Leaf(T_b, <<"x">>), Leaf(T_b, <<" ", "\n">>),
      Leaf(K_attributes, <<"x">>), Leaf(K_value, <<"x">>), Leaf(T_a_b, <<"x">>),
      Element(T_a, << <<A_id, <<"1">>>> >>, <<>>, <<>>),
      Element(T_a, <<>>, <<>>, <<Leaf(T_b, <<"x">>)>>),
      Element(T_a, <<>>, <<>>, <<Leaf(T_a, <<"x">>)>>) }

\* one element with up to MaxChildren children
WideDocs ==
    { Element(T_a, attrib, text, children) :
        attrib \in { <<>>, << <<A_id, <<"1">>>> >> },
        text \in { <<>>, <<" ", "t", "\t">> },
        children \in SeqUpTo(Kids, MaxChildren) \ {<<>>} }

\* the fields of a Product
Fields == { Leaf(T_Name, <<"x">>), Leaf(T_Name, <<"y">>) }

\* the children of a Products container
Items ==
    { Element(K_Product, <<>>, <<>>, fields) :
        fields \in SeqUpTo(Fields, MaxChildren) \ {<<>>} }
    \cup
    { Leaf(K_Product, <<"p">>), Leaf(K_Product, <<>>),
      Element(K_Product, << <<A_id, <<"7">>>> >>, <<>>,
              <<Leaf(K_attributes \o Sep \o A_id, <<"x">>)>>),
      Element(K_Product, <<>>, <<>>,
              <<Leaf(K_Products \o Sep \o K_attributes \o Sep \o A_id, <<"x">>)>>),
      Leaf(T_Info, <<"i">>) }

\* a Products container with up to MaxChildren children, bare or with
\* attributes and a text of its own
ProductDocs ==
    { Element(K_Products, shape[1], shape[2], children) :
        shape \in { << <<>>, <<>> >>,
                    << << <<A_id, <<"1">>>>, <<A_v, <<" ", "2">>>> >>, <<"t">> >> },
        children \in SeqUpTo(Items, MaxChildren) }

\* elements whose only child carries a reserved name and content of its own
ReservedDocs ==
    { Element(T_a, <<>>, <<>>, <<Element(K_attributes, <<>>, <<>>, <<kid>>)>>) :
        kid \in { Leaf(T_b, <<"x">>),
                  Element(T_b, << <<A_id, <<"1">>>> >>, <<>>, <<>>),
                  Element(T_b, <<>>, <<>>, <<Leaf(T_a, <<"x">>)>>) } }
    \cup
    { Element(K_attributes, <<>>, <<>>, <<Leaf(K_attributes, <<"x">>)>>),
      Element(K_value, <<>>, <<>>, <<Leaf(K_value, <<"x">>)>>) }

Docs == LeafDocs \cup WideDocs \cup ProductDocs \cup ReservedDocs

----------------------------------------------------------------------------
(* ConvSpec: one document through parse_xml and flatten_data *)

NoReport == [excel |-> "none", text |-> "none"]

BatchIdle ==
    /\ args = [flatten |-> FALSE, no_report |-> TRUE, report_format |-> "text"]
    /\ targets = <<>>
    /\ idx = 0
    /\ results = <<>>
    /\ report = NoReport
    /\ outputs = <<>>
    /\ conversion_result = None
    /\ exit_code = <<>>

ConvInit ==
    /\ pc = "loaded"
    /\ node \in Docs
    /\ data = None
    /\ flat = None
    /\ BatchIdle

\* data = parse_xml(input_path)
ParseXml ==
    /\ pc = "loaded"
    /\ data' = parse_xml(node)
    /\ pc' = "parsed"
    /\ UNCHANGED <<node, flat, args, targets, idx, results, report, outputs,
                   conversion_result, exit_code>>

\* flattened_data = flatten_data(data)
FlattenData ==
    /\ pc = "parsed"
    /\ flat' = flatten_data(data)
    /\ pc' = "flattened"
    /\ UNCHANGED <<node, data, args, targets, idx, results, report, outputs,
                   conversion_result, exit_code>>

ConvNext == ParseXml \/ FlattenData

ConvSpec == ConvInit /\ [][ConvNext]_vars

----------------------------------------------------------------------------
(* converter.convert_xml_to_json *)

\* An input file: [name, exists, wellformed, doc, fault].  doc is the tree
\* ET.parse yields when the file is well-formed.  fault is what the
\* environment does to the conversion of the file: "none"; "read" (an OSError
\* while the input is hashed or opened); "write" (an OSError while the output
\* is written); "dump" (an exception while the data is flattened or
\* serialised, before write_text opens the output); "raise" (an exception
\* raised inside the try block of run, outside the handlers of
\* convert_xml_to_json).
File(name, exists, wellformed, doc, fault) ==
    [name |-> name, exists |-> exists, wellformed |-> wellformed, doc |-> doc,
     fault |-> fault]

Msg(m) == [t |-> "msg", m |-> m]

\* calculate_sha256: a digest stands for the content it was computed from
Sha256(content) == [t |-> "sha256", of |-> content]

ConversionResult(success, records, warning, error, input_hash, output_hash) ==
    [success |-> success, records_processed |-> records,
     warning_message |-> warning, error_message |-> error,
     input_sha256 |-> input_hash, output_sha256 |-> output_hash]

\* the record count of the nested branch (lines 169-175)
NestedRecordCount(d) ==
    LET products_section ==
            IF DictHas(d, K_Products) THEN DictGet(d, K_Products) ELSE EmptyDict
        products ==
            IF DictHas(products_section, K_Product)
            THEN DictGet(products_section, K_Product) ELSE List(<<>>)
    IN  IF ~IsDict(products_section) THEN 0
        ELSE IF IsList(products) THEN Len(products.elems)
        ELSE IF ~IsNone(products) THEN 1
        ELSE 0

\* the record count of the flatten branch (lines 161-165)
FlatRecordCount(flattened_data) ==
    IF IsList(flattened_data) THEN Len(flattened_data.elems) ELSE 1

\* what convert_xml_to_json writes to the output file, for a file that parses
OutputData(file, flatten) ==
    IF flatten THEN flatten_data(parse_xml(file.doc)) ELSE parse_xml(file.doc)

RecordsCount(file, flatten) ==
    IF flatten THEN FlatRecordCount(flatten_data(parse_xml(file.doc)))
    ELSE NestedRecordCount(parse_xml(file.doc))

\* the warning of lines 184-185
WarningFor(records_count) ==
    IF records_count = 0 THEN Msg("No products found in XML file") ELSE None

\* convert_xml_to_json whose parse-error result keeps the input hash
convert_xml_to_json_KeepsInputHash(file, flatten) ==
    IF file.fault = "read"
    THEN ConversionResult(FALSE, 0, None, Msg("Unexpected error"), None, None)
    ELSE IF ~file.wellformed
    THEN ConversionResult(FALSE, 0, None, Msg("XML parse error"),
                          Sha256(file.name), None)
    ELSE IF file.fault \in {"dump", "write"}
    THEN ConversionResult(FALSE, 0, None, Msg("Unexpected error"), None, None)
    ELSE ConversionResult(TRUE, RecordsCount(file, flatten),
                          WarningFor(RecordsCount(file, flatten)), None,
                          Sha256(file.name), Sha256(OutputData(file, flatten)))

\* the value convert_xml_to_json returns (it catches every Exception)
convert_xml_to_json(file, flatten) ==
    IF file.fault = "read"
    THEN ConversionResult(FALSE, 0, None, Msg("Unexpected error"), None, None)
    ELSE IF ~file.wellformed
    THEN ConversionResult(FALSE, 0, None, Msg("XML parse error"), None, None)
    ELSE IF file.fault \in {"dump", "write"}
    THEN ConversionResult(FALSE, 0, None, Msg("Unexpected error"), None, None)
    ELSE ConversionResult(TRUE, RecordsCount(file, flatten),
                          WarningFor(RecordsCount(file, flatten)), None,
                          Sha256(file.name), Sha256(OutputData(file, flatten)))

\* the output file reaches write_text (line 177)
ReachesWrite(file) == file.fault \notin {"read", "dump"} /\ file.wellformed

----------------------------------------------------------------------------
(* quality_report.BatchMetrics and cli.generate_quality_report *)

ProcessingResult(filename, status, error, warning, records) ==
    [filename |-> filename, status |-> status, error_message |-> error,
     warning_message |-> warning, records_processed |-> records]

RECURSIVE CountStatus(_, _, _)
\* sum(1 for r in self.results if r.status == status)
CountStatus(rs, status, i) ==
    IF i > Len(rs) THEN 0
    ELSE (IF rs[i].status = status THEN 1 ELSE 0) + CountStatus(rs, status, i + 1)

\* total_failures that counts the warnings as failures too
total_failures_WithWarnings(rs) ==
    CountStatus(rs, "failure", 1) + CountStatus(rs, "warning", 1)

total_failures(rs) == CountStatus(rs, "failure", 1)

\* generate_quality_report: what becomes of the spreadsheet, of the text
\* report, and whether an exception leaves the function.  openpyxl is
\* OPENPYXL_AVAILABLE, excel_fails and text_fails say whether the spreadsheet
\* step and the text step raise when they run.
generate_quality_report(report_format, openpyxl, excel_fails, text_fails) ==
    LET wants_excel == report_format \in {"excel", "both"}
        excel == IF ~wants_excel THEN "none"
                 ELSE IF ~openpyxl THEN "unavailable"
                 ELSE IF excel_fails THEN "failed"
                 ELSE "written"
        format2 == IF wants_excel /\ excel # "written" /\ report_format = "excel"
                   THEN "text" ELSE report_format
        text == IF format2 \notin {"text", "both"} THEN "none"
                ELSE IF text_fails THEN "failed"
                ELSE "written"
    IN  [excel |-> excel, text |-> text]

----------------------------------------------------------------------------
(* cli.run *)

\* the documents of the batch
Doc_TwoProducts ==
    Element(K_Products, << <<A_id, <<"1">>>> >>, <<>>,
            << Element(K_Product, <<>>, <<>>, <<Leaf(T_Name, <<"x">>)>>),
               Element(K_Product, <<>>, <<>>, <<Leaf(T_Name, <<"y">>)>>) >>)

Doc_NoProducts == Element(K_Products, <<>>, <<>>, <<>>)

Doc_OtherRoot == Element(T_a, <<>>, <<>>, <<Leaf(T_Info, <<"i">>)>>)

\* the files resolve_targets can return
Files ==
    { File("two.xml", TRUE, TRUE, Doc_TwoProducts, "none"),
      File("empty.xml", TRUE, TRUE, Doc_NoProducts, "none"),
      File("other.xml", TRUE, TRUE, Doc_OtherRoot, "none"),
      File("bad.xml", TRUE, FALSE, Doc_NoProducts, "none"),
      File("locked.xml", TRUE, TRUE, Doc_TwoProducts, "read"),
      File("full.xml", TRUE, TRUE, Doc_TwoProducts, "write"),
      File("deep.xml", TRUE, TRUE, Doc_TwoProducts, "dump"),
      File("gone.xml", FALSE, TRUE, Doc_NoProducts, "none"),
      File("odd.xml", TRUE, TRUE, Doc_TwoProducts, "raise") }

\* convert_xml_to_json and the data it writes, tabulated over the files of
\* the batch and the two modes
Conversions ==
    [file \in Files, flatten \in BOOLEAN |-> convert_xml_to_json(file, flatten)]

Written ==
    [file \in {f \in Files : ReachesWrite(f)}, flatten \in BOOLEAN |->
        OutputData(file, flatten)]

\* the output directory before the run: it holds a file that an earlier run
\* wrote for bad.xml
StaleOutputs == << <<"bad.xml", Msg("stale")>> >>

Init ==
    /\ pc = "start"
    /\ node = None
    /\ data = None
    /\ flat = None
    /\ args \in [flatten : BOOLEAN, no_report : BOOLEAN,
                 report_format : {"excel", "text", "both"}]
    /\ targets \in SeqUpTo(Files, MaxTargets)
    /\ idx = 0
    /\ results = <<>>
    /\ report = NoReport
    /\ outputs = StaleOutputs
    /\ conversion_result = None
    /\ exit_code = <<>>

\* lines 131-133: nothing to process
ReturnNoTargets ==
    /\ pc = "start"
    /\ targets = <<>>
    /\ exit_code' = <<1>>
    /\ pc' = "returned"
    /\ UNCHANGED <<node, data, flat, args, targets, idx, results, report,
                   outputs, conversion_result>>

\* line 136: metrics = BatchMetrics(), and the loop begins
EnterLoop ==
    /\ pc = "start"
    /\ targets # <<>>
    /\ pc' = "loop"
    /\ UNCHANGED <<node, data, flat, args, targets, idx, results, report,
                   outputs, conversion_result, exit_code>>

\* lines 145-153: the file has gone since resolve_targets saw it
ProcessMissing ==
    /\ pc = "loop"
    /\ idx < Len(targets)
    /\ ~targets[idx + 1].exists
    /\ results' = Append(results,
          ProcessingResult(targets[idx + 1].name, "skipped",
                           Msg("File does not exist"), None, 0))
    /\ idx' = idx + 1
    /\ UNCHANGED <<pc, node, data, flat, args, targets, report, outputs,
                   conversion_result, exit_code>>

\* the ProcessingResult of lines 159-178
ResultOf(file, conversion) ==
    IF conversion.success
    THEN ProcessingResult(file.name,
            IF ~IsNone(conversion.warning_message) THEN "warning" ELSE "success",
            None, conversion.warning_message,
            conversion.records_processed)
    ELSE ProcessingResult(file.name, "failure",
            conversion.error_message, None, 0)

\* ProcessRaised that leaves the loop at the exception
ProcessRaised_Abort ==
    /\ pc = "loop"
    /\ idx < Len(targets)
    /\ targets[idx + 1].exists
    /\ targets[idx + 1].fault = "raise"
    /\ results' = Append(results,
          ProcessingResult(targets[idx + 1].name, "failure",
                           Msg("Unexpected error"), None, 0))
    /\ idx' = Len(targets)
    /\ UNCHANGED <<pc, node, data, flat, args, targets, report, outputs,
                   conversion_result, exit_code>>

\* the output directory after convert_xml_to_json ran on file: write_text
\* (line 177) replaces the file; a write that fails leaves it as it was or
\* cut short
OutputsAfter(out, file, flatten) ==
    IF ~ReachesWrite(file) THEN {out}
    ELSE IF file.fault = "write"
    THEN {out, Append(out, <<file.name, Msg("truncated")>>)}
    ELSE {Append(out, <<file.name, Written[file, flatten]>>)}

\* lines 156-181: the file is converted and its result recorded
ProcessConverted ==
    /\ pc = "loop"
    /\ idx < Len(targets)
    /\ targets[idx + 1].exists
    /\ targets[idx + 1].fault # "raise"
    /\ conversion_result' = Conversions[targets[idx + 1], args.flatten]
    /\ results' = Append(results, ResultOf(targets[idx + 1], conversion_result'))
    /\ outputs' \in OutputsAfter(outputs, targets[idx + 1], args.flatten)
    /\ idx' = idx + 1
    /\ UNCHANGED <<pc, node, data, flat, args, targets, report, exit_code>>

\* lines 183-191: an exception reached the handler of run
ProcessRaised ==
    /\ pc = "loop"
    /\ idx < Len(targets)
    /\ targets[idx + 1].exists
    /\ targets[idx + 1].fault = "raise"
    /\ results' = Append(results,
          ProcessingResult(targets[idx + 1].name, "failure",
                           Msg("Unexpected error"), None, 0))
    /\ idx' = idx + 1
    /\ UNCHANGED <<pc, node, data, flat, args, targets, report, outputs,
                   conversion_result, exit_code>>

\* lines 194-201: the loop is over, metrics.finalize() and the summary
Finalize ==
    /\ pc = "loop"
    /\ idx = Len(targets)
    /\ pc' = "report"
    /\ UNCHANGED <<node, data, flat, args, targets, idx, results, report,
                   outputs, conversion_result, exit_code>>

\* line 204 with --no-report
SkipReport ==
    /\ pc = "report"
    /\ args.no_report
    /\ pc' = "return"
    /\ UNCHANGED <<node, data, flat, args, targets, idx, results, report,
                   outputs, conversion_result, exit_code>>

\* lines 204-206: the report is generated; an exception of the text step
\* leaves generate_quality_report and run
GenerateReport ==
    /\ pc = "report"
    /\ ~args.no_report
    /\ \E openpyxl \in BOOLEAN, excel_fails \in BOOLEAN, text_fails \in BOOLEAN :
          /\ report' = generate_quality_report(args.report_format, openpyxl,
                                               excel_fails, text_fails)
          /\ pc' = IF report'.text = "failed" THEN "raised" ELSE "return"
    /\ UNCHANGED <<node, data, flat, args, targets, idx, results, outputs,
                   conversion_result, exit_code>>

\* line 208
Return ==
    /\ pc = "return"
    /\ exit_code' = <<IF total_failures(results) = 0 THEN 0 ELSE 1>>
    /\ pc' = "returned"
    /\ UNCHANGED <<node, data, flat, args, targets, idx, results, report,
                   outputs, conversion_result>>

Next ==
    \/ ReturnNoTargets
    \/ EnterLoop
    \/ ProcessMissing
    \/ ProcessConverted
    \/ ProcessRaised
    \/ Finalize
    \/ SkipReport
    \/ GenerateReport
    \/ Return

Spec == Init /\ [][Next]_vars

\* run is sequential code: a step that can be taken is taken
FairSpec == Spec /\ WF_vars(Next)

----------------------------------------------------------------------------
(* Vocabulary of the properties of the converter *)

RECURSIVE Subnodes(_)
\* the element n and every element below it
Subnodes(n) == {n} \cup UNION {Subnodes(n.children[i]) : i \in 1..Len(n.children)}

RECURSIVE SumTo(_, _)
\* f[1] + ... + f[k]
SumTo(f, k) == IF k = 0 THEN 0 ELSE f[k] + SumTo(f, k - 1)

RECURSIVE LeafCount(_, _)
\* number of leaf paths of a value: a scalar under a key, an attribute of an
\* "attributes" map, a list of scalars under a key
LeafCount(v, keyed) ==
    IF IsDict(v)
    THEN SumTo([i \in 1..Len(v.items) |->
                   IF v.items[i][1] = K_attributes /\ IsDict(v.items[i][2])
                   THEN Len(v.items[i][2].items)
                   ELSE LeafCount(v.items[i][2], TRUE)], Len(v.items))
    ELSE IF IsList(v)
    THEN IF keyed /\ \A i \in 1..Len(v.elems) : IsScalar(v.elems[i])
         THEN 1
         ELSE SumTo([i \in 1..Len(v.elems) |-> LeafCount(v.elems[i], TRUE)],
                    Len(v.elems))
    ELSE IF keyed THEN 1 ELSE 0

\* the values flatten_dict is called with for the document at hand: the whole
\* document, and each item of its Products container
FlattenInputs(d) ==
    {d} \cup
    (IF HasProducts(d)
     THEN {ProductsRaw(DictGet(d, K_Products))[i] :
              i \in 1..Len(ProductsRaw(DictGet(d, K_Products)))}
     ELSE {})

\* the items held by the Product entry of a Products map
ProductItems(products) ==
    IF IsList(DictGet(products, K_Product))
    THEN DictGet(products, K_Product).elems
    ELSE <<DictGet(products, K_Product)>>

\* the attributes of a Products map, as a sequence of <<name, value>>
ContainerAttrs(products) ==
    IF IsDict(DictGet(products, K_attributes))
    THEN DictGet(products, K_attributes).items
    ELSE <<>>

----------------------------------------------------------------------------
(* C1: flatten_dict maps no two distinct leaf paths of a normalized value   *)
(* to the same key: the flattened record has one entry per leaf path.      *)
C1_NoCollision ==
    pc = "flattened" =>
        \A v \in FlattenInputs(data) :
            Len(flatten_dict(v, <<>>).items) = LeafCount(v, FALSE)

(* C2: a document whose root map holds a Products map with a Product entry *)
(* of N items is flattened to a list of N records, record i holding the    *)
(* flattened item i, and every record holds each attribute a of the        *)
(* container under "Products.attributes.<a>" with the container's value.   *)
C2_RecordPerItem ==
    (pc = "flattened" /\ IsDict(DictGet(data, K_Products))
                      /\ DictHas(DictGet(data, K_Products), K_Product)) =>
        LET products == DictGet(data, K_Products)
            items == ProductItems(products)
            attrs == ContainerAttrs(products)
            broadcast == {BroadcastKey(attrs[j][1]) : j \in 1..Len(attrs)}
        IN  /\ IsList(flat)
            /\ Len(flat.elems) = Len(items)
            /\ \A i \in 1..Len(items) :
                /\ IsDict(flat.elems[i])
                /\ \A j \in 1..Len(attrs) :
                      /\ DictHas(flat.elems[i], BroadcastKey(attrs[j][1]))
                      /\ DictGet(flat.elems[i], BroadcastKey(attrs[j][1])) = attrs[j][2]
                /\ LET own == flatten_dict(items[i], <<>>)
                   IN  \A k \in 1..Len(own.items) :
                          own.items[k][1] \notin broadcast =>
                              /\ DictHas(flat.elems[i], own.items[k][1])
                              /\ DictGet(flat.elems[i], own.items[k][1]) = own.items[k][2]

C2_Witness ==
    /\ pc = "flattened"
    /\ HasProducts(data)
    /\ IsList(flat)
    /\ Len(flat.elems) = 2
    /\ Len(ContainerAttrs(DictGet(data, K_Products))) = 2
    /\ flat.elems[1] # flat.elems[2]

----------------------------------------------------------------------------
(* Vocabulary of the properties of etree_to_dict *)

LocalName(e) == strip_namespace(e.tag)

RECURSIVE Surviving(_, _)
\* <<local name, normalized value>> of the children that do not normalize to
\* None, in document order
Surviving(children, i) ==
    IF i > Len(children) THEN <<>>
    ELSE (IF IsNone(etree_to_dict(children[i])) THEN <<>>
          ELSE << <<LocalName(children[i]), etree_to_dict(children[i])>> >>)
         \o Surviving(children, i + 1)

RECURSIVE FirstNames(_, _)
\* the names of surv, each at its first occurrence
FirstNames(surv, i) ==
    IF i > Len(surv) THEN <<>>
    ELSE (IF \E j \in 1..(i - 1) : surv[j][1] = surv[i][1] THEN <<>>
          ELSE <<surv[i][1]>>)
         \o FirstNames(surv, i + 1)

RECURSIVE ValuesNamed(_, _, _)
\* the values of surv carrying the name k, in order
ValuesNamed(surv, k, i) ==
    IF i > Len(surv) THEN <<>>
    ELSE (IF surv[i][1] = k THEN <<surv[i][2]>> ELSE <<>>)
         \o ValuesNamed(surv, k, i + 1)

\* the value a name group is to store: the sole value, or the list of values
Stored(vals) == IF Len(vals) = 1 THEN vals[1] ELSE List(vals)

\* etree_to_dict returned the map built for e itself (not a bare text, not
\* None, not the value of a same-named sole child)
ReturnsOwnMap(e) == IsDict(etree_to_dict(e)) /\ etree_to_dict(e) = ResultWithValue(e)

AllWhitespace(s) == \A i \in 1..Len(s) : s[i] \in Whitespace

\* s without its leading and trailing whitespace, for s not all whitespace
Trimmed(s) ==
    LET first == CHOOSE i \in 1..Len(s) :
                    s[i] \notin Whitespace /\ \A j \in 1..(i - 1) : s[j] \in Whitespace
        last == CHOOSE i \in 1..Len(s) :
                    s[i] \notin Whitespace /\ \A j \in (i + 1)..Len(s) : s[j] \in Whitespace
    IN  SubSeq(s, first, last)

IsLeafElement(e) == e.children = <<>> /\ e.attrib = <<>>

----------------------------------------------------------------------------
C7_WitnessDropped ==
    /\ pc = "parsed"
    /\ Len(node.children) = 2
    /\ IsNone(etree_to_dict(node.children[1]))
    /\ node.children[1].tag # node.children[2].tag
    /\ LocalName(node.children[1]) = LocalName(node.children[2])
    /\ ReturnsOwnMap(node)
    /\ DictGet(data, LocalName(node)) = etree_to_dict(node)
    /\ DictHas(etree_to_dict(node), LocalName(node.children[2]))

C8_ReservedKeys ==
    pc = "parsed" =>
        \A e \in Subnodes(node) :
            ReturnsOwnMap(e) =>
                LET m == etree_to_dict(e)
                IN  /\ e.attrib # <<>> =>
                          /\ DictHas(m, K_attributes)
                          /\ DictGet(m, K_attributes) = AttribDict(e.attrib)
                    /\ DictHas(m, K_value) =>
                          DictGet(m, K_value) = Str(Strip(e.text))
                    /\ \A k \in 1..Len(m.items) :
                          m.items[k][1] \notin {K_attributes, K_value} =>
                              \E i \in 1..Len(e.children) :
                                  LocalName(e.children[i]) = m.items[k][1]

(* C9: an element without children and attributes normalizes to its        *)
(* trimmed text when that is not empty and to None when its text is empty  *)
(* or whitespace only; a child that normalizes to None adds no key to the  *)
(* map of its parent.                                                      *)
C9_LeafNormalization ==
    pc = "parsed" =>
        \A e \in Subnodes(node) :
            /\ IsLeafElement(e) =>
                  etree_to_dict(e) =
                      IF AllWhitespace(e.text) THEN None ELSE Str(Trimmed(e.text))
            /\ \A i \in 1..Len(e.children) :
                  LET k == LocalName(e.children[i])
                  IN  (\A j \in 1..Len(e.children) :
                          LocalName(e.children[j]) = k =>
                              IsLeafElement(e.children[j]) /\ AllWhitespace(e.children[j].text))
                      => /\ ~DictHas(GroupedChildren(e), k)
                         /\ (ReturnsOwnMap(e) /\ k \notin {K_attributes, K_value}) =>
                               ~DictHas(etree_to_dict(e), k)

C9_Witness ==
    /\ pc = "parsed"
    /\ Len(node.children) = 2
    /\ IsLeafElement(node.children[1])
    /\ node.children[1].text # <<>>
    /\ AllWhitespace(node.children[1].text)
    /\ IsLeafElement(node.children[2])
    /\ node.children[2].text # Strip(node.children[2].text)
    /\ ReturnsOwnMap(node)
    /\ DictGet(data, LocalName(node)) = etree_to_dict(node)
    /\ ~DictHas(etree_to_dict(node), LocalName(node.children[1]))
    /\ DictHas(etree_to_dict(node), LocalName(node.children[2]))

\* e has attributes, no children and no text but whitespace
AttributesOnly(e) == e.attrib # <<>> /\ e.children = <<>> /\ AllWhitespace(e.text)

AttrLocal(e, i) == strip_namespace(e.attrib[i][1])

(* C10 as stated: an element with attributes, no children and no text but  *)
(* whitespace normalizes to a map whose only key is "attributes", with one *)
(* entry per source attribute holding its value, namespace-prefixed names  *)
(* included.                                                               *)
C10_AttributesOneToOne ==
    pc = "parsed" =>
        \A e \in Subnodes(node) :
            AttributesOnly(e) =>
                LET m == etree_to_dict(e)
                IN  /\ IsDict(m)
                    /\ DictKeys(m) = <<K_attributes>>
                    /\ IsDict(DictGet(m, K_attributes))
                    /\ Len(DictGet(m, K_attributes).items) = Len(e.attrib)
                    /\ \A i \in 1..Len(e.attrib) :
                          DictGet(DictGet(m, K_attributes), AttrLocal(e, i))
                              = Str(e.attrib[i][2])

(* C10 amended: ... a map whose only key is "attributes", with one entry   *)
(* per distinct local attribute name, in order of first occurrence; the    *)
(* entry holds the value of the last source attribute of that local name,  *)
(* so the entries match the source attributes one-to-one exactly when the  *)
(* local names are distinct.                                               *)
C10_AttributesByLocalName ==
    pc = "parsed" =>
        \A e \in Subnodes(node) :
            AttributesOnly(e) =>
                LET m == etree_to_dict(e)
                    locals == FirstNames([i \in 1..Len(e.attrib) |->
                                             <<AttrLocal(e, i), e.attrib[i][2]>>], 1)
                IN  /\ IsDict(m)
                    /\ DictKeys(m) = <<K_attributes>>
                    /\ IsDict(DictGet(m, K_attributes))
                    /\ DictKeys(DictGet(m, K_attributes)) = locals
                    /\ \A i \in 1..Len(e.attrib) :
                          (\A j \in (i + 1)..Len(e.attrib) : AttrLocal(e, j) # AttrLocal(e, i))
                          => DictGet(DictGet(m, K_attributes), AttrLocal(e, i))
                                 = Str(e.attrib[i][2])

C10_Witness ==
    /\ pc = "parsed"
    /\ AttributesOnly(node)
    /\ node.text # <<>>
    /\ Len(node.attrib) = 2
    /\ AttrLocal(node, 1) = AttrLocal(node, 2)
    /\ DictGet(data, LocalName(node)) = etree_to_dict(node)
    /\ Len(DictGet(etree_to_dict(node), K_attributes).items) = 1

----------------------------------------------------------------------------
(* Vocabulary of the properties of the batch *)

\* the files of the result log recorded with a status
WithStatus(status) == {i \in 1..Len(results) : results[i].status = status}

\* the loop of run is over
LoopOver == pc \in {"report", "return", "returned", "raised"}

\* the status the batch owes a file: what happened to the file decides it
Outcome(file) ==
    IF ~file.exists THEN "skipped"
    ELSE IF file.fault # "none" \/ ~file.wellformed THEN "failure"
    ELSE "converted"

\* the document of the file holds no Product record
NoProductRecords(file) ==
    ~(/\ LocalName(file.doc) = K_Products
      /\ \E i \in 1..Len(file.doc.children) :
            LocalName(file.doc.children[i]) = K_Product)

----------------------------------------------------------------------------
(* C3 as stated: run returns 0 exactly when no file was recorded with      *)
(* status "failure", for every list of targets, the empty one included.    *)
C3_ExitZeroIffNoFailure ==
    pc = "returned" => (exit_code = <<0>> <=> WithStatus("failure") = {})

(* C3 amended: whenever run returns, it returns 0 exactly when there was   *)
(* at least one target and no file was recorded with status "failure";     *)
(* with no target it returns 1 although nothing failed.  Warnings and      *)
(* skipped files do not change the exit code.                              *)
C3_ExitZeroIffTargetsAndNoFailure ==
    /\ exit_code \in {<<>>, <<0>>, <<1>>}
    /\ pc = "returned" <=> exit_code # <<>>
    /\ pc = "returned" =>
          (exit_code = <<0>> <=> (targets # <<>> /\ WithStatus("failure") = {}))

C3_Witness ==
    /\ pc = "returned"
    /\ exit_code = <<0>>
    /\ WithStatus("warning") # {}
    /\ WithStatus("skipped") # {}

(* C4: run processes every target once, in target order, whatever happens *)
(* to a file: while the loop runs the result log holds one result for each *)
(* target consumed so far, in target order, with the status the file's     *)
(* outcome calls for; a next target can always be processed; when the loop *)
(* is over the log holds exactly one result per target.                    *)
C4_ResultLog ==
    /\ pc # "start" =>
          /\ Len(results) = (IF targets = <<>> THEN 0 ELSE idx)
          /\ idx <= Len(targets)
          /\ \A i \in 1..Len(results) :
                /\ results[i].filename = targets[i].name
                /\ Outcome(targets[i]) = "skipped" => results[i].status = "skipped"
                /\ Outcome(targets[i]) = "failure" => results[i].status = "failure"
                /\ Outcome(targets[i]) = "converted" =>
                      results[i].status \in {"success", "warning"}
    /\ (LoopOver /\ targets # <<>>) => Len(results) = Len(targets)

\* the log is append-only and the loop consumes one target per step
C4_AppendOnly ==
    /\ \E k \in {0, 1} :
          /\ Len(results') = Len(results) + k
          /\ SubSeq(results', 1, Len(results)) = results
          /\ pc = "loop" /\ pc' = "loop" => (idx' = idx + 1 /\ k = 1)
    /\ targets' = targets

C4_OneResultPerTarget ==
    /\ []C4_ResultLog
    /\ [][C4_AppendOnly]_vars
    /\ (targets # <<>>) ~> LoopOver

C4_Witness ==
    /\ pc = "report"
    /\ Len(targets) = 2
    /\ targets[1].fault = "raise"
    /\ Len(results) = 2
    /\ results[1].status = "failure"
    /\ results[2].status = "success"

(* C5: a failure of the report never escalates: whenever the spreadsheet   *)
(* step or the text step of the report fails, run goes on to return its    *)
(* exit code, and in format "excel" a failed or unavailable spreadsheet is  *)
(* replaced by the written text report.                                    *)
C5_ReportNeverEscalates ==
    (report.excel \in {"failed", "unavailable"} \/ report.text = "failed") =>
        /\ pc \in {"return", "returned"}
        /\ (args.report_format = "excel" /\ report.excel \in {"failed", "unavailable"})
              => report.text = "written"

(* C6: a file that converts and holds no Product record is recorded with   *)
(* status "warning", records_processed = 0 and the "No products found"     *)
(* warning, in nested mode and in flatten mode.                            *)
C6_NoProductsIsWarning ==
    \A i \in 1..Len(results) :
        (Outcome(targets[i]) = "converted" /\ NoProductRecords(targets[i])) =>
            /\ results[i].status = "warning"
            /\ results[i].records_processed = 0
            /\ results[i].warning_message = Msg("No products found in XML file")

----------------------------------------------------------------------------
(* C11: flatten_dict is idempotent: flattening the record it returned for  *)
(* a normalized value gives that record again.                             *)
C11_Idempotent ==
    pc = "flattened" =>
        \A v \in FlattenInputs(data) :
            flatten_dict(flatten_dict(v, <<>>), <<>>) = flatten_dict(v, <<>>)

----------------------------------------------------------------------------
\* the root map has a Products map whose Product entry is a list or a map
HasItemList(d) ==
    /\ IsDict(DictGet(d, K_Products))
    /\ DictHas(DictGet(d, K_Products), K_Product)
    /\ \/ IsList(DictGet(DictGet(d, K_Products), K_Product))
       \/ IsDict(DictGet(DictGet(d, K_Products), K_Product))

(* C12: flatten_data returns the list of per-item records only when the    *)
(* root map has a Products map whose Product entry is a list or a single   *)
(* map; in every other case, a Product entry holding a bare scalar         *)
(* included, it returns the one record flatten_dict(data).                 *)
C12_Dispatch ==
    pc = "flattened" =>
        /\ IsList(flat) => HasItemList(data)
        /\ ~HasItemList(data) => flat = flatten_dict(data, <<>>)

----------------------------------------------------------------------------
RECURSIVE Leaves(_)
\* the leaves of a normalized value: its scalars, the values of its
\* "attributes" maps and its lists of scalars
Leaves(v) ==
    IF IsDict(v)
    THEN UNION { IF v.items[i][1] = K_attributes /\ IsDict(v.items[i][2])
                 THEN {v.items[i][2].items[j][2] :
                          j \in 1..Len(v.items[i][2].items)}
                 ELSE Leaves(v.items[i][2]) : i \in 1..Len(v.items) }
    ELSE IF IsList(v)
    THEN IF \A i \in 1..Len(v.elems) : IsScalar(v.elems[i])
         THEN {v}
         ELSE UNION {Leaves(v.elems[i]) : i \in 1..Len(v.elems)}
    ELSE IF IsNone(v) THEN {} ELSE {v}

\* the values held by the entries of a record, or of a list of records
RecordValues(f) ==
    IF IsList(f)
    THEN UNION { {f.elems[i].items[k][2] : k \in 1..Len(f.elems[i].items)} :
                    i \in 1..Len(f.elems) }
    ELSE {f.items[k][2] : k \in 1..Len(f.items)}

(* C13: flatten_data loses no information: every leaf of the normalized    *)
(* document (scalar, attribute value, list of scalars) is the value of     *)
(* some entry of the returned record or records, in per-item mode too.     *)
C13_NoLoss ==
    pc = "flattened" => Leaves(data) \subseteq RecordValues(flat)

----------------------------------------------------------------------------
\* etree_to_dict reaches line 64 for e: e is no leaf element and its text
\* was not returned bare at line 62
ReachesCollapse(e) ==
    /\ ~IsLeafElement(e)
    /\ ~(Strip(e.text) # <<>> /\ ResultWithChildren(e).items = <<>>)

\* the map built for e has no "attributes" key, no "value" key, and one
\* entry, named as e itself
SoleOwnNameEntry(e) ==
    /\ ~DictHas(ResultWithValue(e), K_attributes)
    /\ ~DictHas(ResultWithValue(e), K_value)
    /\ DictKeys(ResultWithValue(e)) = <<LocalName(e)>>

(* C14: for an element whose map reaches the end of etree_to_dict, the     *)
(* result is the value of the map's single entry exactly when the map has  *)
(* no "attributes" key, no "value" key and one entry named as the element  *)
(* itself; any other non-empty map is returned unchanged, and an empty map *)
(* yields None.                                                            *)
C14_CollapseRule ==
    pc = "parsed" =>
        \A e \in Subnodes(node) :
            ReachesCollapse(e) =>
                LET result == ResultWithValue(e)
                IN  IF result.items = <<>> THEN IsNone(etree_to_dict(e))
                    ELSE IF SoleOwnNameEntry(e)
                    THEN /\ etree_to_dict(e) = result.items[1][2]
                         /\ etree_to_dict(e) # result
                    ELSE etree_to_dict(e) = result

\* a map collapsed to the value of its sole, same-named child, beside a
\* sibling whose sole child has another name and keeps its map
C14_Witness ==
    /\ pc = "parsed"
    /\ \E e \in Subnodes(node) :
          /\ ReachesCollapse(e) /\ SoleOwnNameEntry(e)
          /\ etree_to_dict(e) = Str(<<"x">>)
    /\ \E e \in Subnodes(node) :
          /\ ReachesCollapse(e) /\ ~SoleOwnNameEntry(e)
          /\ Len(ResultWithValue(e).items) = 1
          /\ etree_to_dict(e) = ResultWithValue(e)
    /\ IsDict(DictGet(data, LocalName(node)))

----------------------------------------------------------------------------
RECURSIVE Calls(_, _)
\* the <<value, parent_key>> pairs flatten_dict is applied to in the course
\* of flatten_dict(v, p), that call included
Calls(v, p) ==
    {<<v, p>>} \cup
    (IF IsDict(v)
     THEN UNION { IF v.items[i][1] = K_attributes /\ IsDict(v.items[i][2])
                  THEN {}
                  ELSE Calls(v.items[i][2], Join(p, v.items[i][1])) :
                     i \in 1..Len(v.items) }
     ELSE IF IsList(v) /\ (p = <<>> \/ \E i \in 1..Len(v.elems) : ~IsScalar(v.elems[i]))
     THEN UNION {Calls(v.elems[i], IndexedKey(p, i - 1)) : i \in 1..Len(v.elems)}
     ELSE {})

\* every flatten_dict call made for the document at hand
AllCalls == UNION {Calls(v, <<>>) : v \in FlattenInputs(data)}

\* p[i] for the element at position i + 1 of a list, i < 10
Bracketed(p, i) == p \o <<"[", Digits[i + 1], "]">>

RECURSIVE PerIndex(_, _, _)
\* the records of the first k elements of list l, each flattened under its
\* own p[i], merged in order
PerIndex(l, p, k) ==
    IF k = 0 THEN EmptyDict
    ELSE DictUpdate(PerIndex(l, p, k - 1),
                    flatten_dict(l.elems[k], Bracketed(p, k - 1)))

\* p.attributes, or attributes for an empty p
AttributesKey(p) == IF p = <<>> THEN K_attributes ELSE p \o Sep \o K_attributes

(* C15: under a non-empty prefix p flatten_dict stores a list of scalars   *)
(* whole as the single entry p and flattens the elements of any other list *)
(* each under p[i], i counted from 0; the entries of a map's "attributes"  *)
(* map become the entries p.attributes.<name>, their values unexpanded.    *)
C15_ListFlattening ==
    pc = "flattened" =>
        \A c \in AllCalls :
            LET v == c[1]
                p == c[2]
            IN  /\ (IsList(v) /\ p # <<>>) =>
                      IF \A i \in 1..Len(v.elems) : IsScalar(v.elems[i])
                      THEN flatten_dict(v, p) = Dict(<< <<p, v>> >>)
                      ELSE flatten_dict(v, p) = PerIndex(v, p, Len(v.elems))
                /\ (IsDict(v) /\ IsDict(DictGet(v, K_attributes))) =>
                      LET attrs == DictGet(v, K_attributes).items
                      IN  /\ flatten_dict(Dict(<< <<K_attributes, Dict(attrs)>> >>), p)
                               = Dict([j \in 1..Len(attrs) |->
                                        <<AttributesKey(p) \o Sep \o attrs[j][1],
                                          attrs[j][2]>>])
                          /\ \A j \in 1..Len(attrs) :
                                DictHas(flatten_dict(v, p),
                                        AttributesKey(p) \o Sep \o attrs[j][1])

\* a document flattened as a whole that holds a list of maps, the first with
\* an attribute, whose entry sits under p[0].attributes.id
C15_Witness ==
    /\ pc = "flattened"
    /\ ~HasProducts(data)
    /\ \E c \in Calls(data, <<>>) :
          /\ IsList(c[1]) /\ c[2] # <<>>
          /\ Len(c[1].elems) = 2
          /\ IsDict(c[1].elems[1])
          /\ IsDict(DictGet(c[1].elems[1], K_attributes))
          /\ DictHas(flat, c[2] \o <<"[", "0", "]">> \o Sep \o K_attributes \o Sep \o A_id)
          /\ DictHas(flat, c[2] \o <<"[", "1", "]">>)

----------------------------------------------------------------------------
\* the loop of run is about to call convert_xml_to_json on its next target
AboutToConvert ==
    /\ pc = "loop"
    /\ idx < Len(targets)
    /\ targets[idx + 1].exists
    /\ targets[idx + 1].fault # "raise"

\* the ConversionResult at hand is well formed: a failure carries a message
\* and no hash, a success carries no error message
C16_ResultShape ==
    conversion_result # None =>
        IF conversion_result.success
        THEN IsNone(conversion_result.error_message)
        ELSE /\ conversion_result.error_message.t = "msg"
             /\ conversion_result.error_message.m # ""
             /\ IsNone(conversion_result.input_sha256)
             /\ IsNone(conversion_result.output_sha256)

\* the call returns to the loop with a result, a failure exactly when
\* something went wrong with the file; a parse error leaves the output
\* directory as it was
C16_Call ==
    AboutToConvert =>
        LET file == targets[idx + 1]
        IN  /\ pc' = "loop"
            /\ idx' = idx + 1
            /\ conversion_result' # None
            /\ conversion_result'.success = (file.fault = "none" /\ file.wellformed)
            /\ results'[idx'].status = "failure" <=> ~conversion_result'.success
            /\ (~file.wellformed /\ file.fault # "read") =>
                  /\ conversion_result'.error_message = Msg("XML parse error")
                  /\ outputs' = outputs

(* C16: convert_xml_to_json never raises: whatever fails while the input   *)
(* is hashed, parsed, flattened or written, it returns a ConversionResult  *)
(* with success False, a non-empty error_message and no hash; a result     *)
(* with success True has no error_message; after a parse error the output  *)
(* file is as it was before the call.                                      *)
C16_NeverRaises == []C16_ResultShape /\ [][C16_Call]_vars

\* bad.xml failed to parse after two.xml was converted: the stale output of
\* bad.xml is still there, beside the output written for two.xml
C16_Witness ==
    /\ idx = 2
    /\ targets[1].name = "two.xml"
    /\ targets[2].name = "bad.xml"
    /\ ~conversion_result.success
    /\ conversion_result.error_message = Msg("XML parse error")
    /\ Len(outputs) = 2
    /\ outputs[1] = <<"bad.xml", Msg("stale")>>
    /\ outputs[2][1] = "two.xml"

====
